---------------------------- MODULE Spec2Model ----------------------------
(***************************************************************************)
(* Model of backend/src/handlers/students/weekly_data.rs: the weekly       *)
(* roster handlers GET /weekly_data/{week} (reconciliation),               *)
(* POST /weekly_data/{week} (add_weekly_data) and POST /del/{week}         *)
(* (delete_data) over the shared Mutex<Table> and the durable store.       *)
(*                                                                         *)
(* Rust Option values are modelled as sequences: None is <<>> and Some(x)  *)
(* is <<x>>.                                                               *)
(***************************************************************************)
EXTENDS Integers, Sequences, FiniteSets, TLC

VARIABLES
    table,      \* Table.rows behind the Mutex: a sequence of RowData
    db,         \* content of the durable store (classroom.db), as last written
    lock,       \* holder of the Mutex<Table>: 0 when free, else a request slot
    poisoned,   \* the Mutex is poisoned (a holder panicked)
    req,        \* per request slot: the handler's locals and its position
    started,    \* number of requests accepted so far
    hist,       \* history: persistence failures seen, last sequential reconcile
    alloc       \* the allocator harness: a roster being allocated row by row

vars == <<table, db, lock, poisoned, req, started, hist, alloc>>

(***************************************************************************)
(* Bounds of the model.                                                    *)
(***************************************************************************)
MaxReqs == 2        \* requests accepted in one behaviour
MaxRoster == 36     \* largest number of present rows in an allocator roster

Slots == {1, 2}     \* requests in flight at the same time

(***************************************************************************)
(* Option and string helpers.                                              *)
(***************************************************************************)
None == <<>>
Some(x) == <<x>>

\* Student names "n01", "n02", ...: the padding makes the bytewise order of
\* the strings the order of the indices.
Name(i) == "n" \o (IF i < 10 THEN "0" ELSE "") \o ToString(i)

NameTable == [i \in 1..(MaxRoster + 4) |-> Name(i)]

\* Position of a string in the bytewise (String::cmp) order of the strings
\* the model compares: "n01" < "n02" < ... < "no" < "yes".
StrRank(s) ==
    IF s = "no" THEN 1000
    ELSE IF s = "yes" THEN 1001
    ELSE CHOOSE i \in DOMAIN NameTable : NameTable[i] = s

\* Ordering::Less / Equal / Greater as -1 / 0 / 1.
CmpInt(a, b) == IF a < b THEN 0 - 1 ELSE IF a > b THEN 1 ELSE 0

\* Option<T>::partial_cmp with None < Some(_), by a rank of the payload.
CmpOptStr(a, b) ==
    IF a = None /\ b = None THEN 0
    ELSE IF a = None THEN 0 - 1
    ELSE IF b = None THEN 1
    ELSE CmpInt(StrRank(a[1]), StrRank(b[1]))

CmpOptNum(a, b) ==
    IF a = None /\ b = None THEN 0
    ELSE IF a = None THEN 0 - 1
    ELSE IF b = None THEN 1
    ELSE CmpInt(a[1], b[1])

(***************************************************************************)
(* RowData.                                                                *)
(***************************************************************************)
MkRow(name, mail, week, att, gid, ta, total, score, ex) ==
    [name |-> name, mail |-> mail, week |-> week, attendance |-> att,
     group_id |-> gid, ta |-> ta, total |-> total,
     fa |-> score, fb |-> score, fc |-> score, fd |-> score,
     bonus_attempt |-> score, bonus_answer_quality |-> score,
     bonus_follow_up |-> score,
     exercise_submitted |-> ex, exercise_test_passing |-> ex,
     exercise_good_documentation |-> ex, exercise_good_structure |-> ex]

\* Faulty variant of the comparator: attendance ascending.
SortCmp_AscendingAttendance(a, b) ==
    LET c1 == CmpOptStr(a.attendance, b.attendance)
        c2 == CmpOptNum(b.total, a.total)
        c3 == CmpInt(StrRank(b.name), StrRank(a.name))
    IN  IF c1 # 0 THEN c1 ELSE IF c2 # 0 THEN c2 ELSE c3

(***************************************************************************)
(* The comparator of prev_week_rows.sort_by: descending attendance, then   *)
(* descending total, then descending name.  SortCmp(a, b) is the Ordering  *)
(* the closure returns for (a, b).                                         *)
(***************************************************************************)
SortCmp(a, b) ==
    LET c1 == CmpOptStr(b.attendance, a.attendance)
        c2 == CmpOptNum(b.total, a.total)
        c3 == CmpInt(StrRank(b.name), StrRank(a.name))
    IN  IF c1 # 0 THEN c1 ELSE IF c2 # 0 THEN c2 ELSE c3

\* Insert x into the sorted sequence s after every element not greater than
\* it: slice::sort_by is a stable sort.
RECURSIVE InsertSorted(_, _)
InsertSorted(s, x) ==
    IF s = <<>> THEN <<x>>
    ELSE IF SortCmp(x, Head(s)) < 0 THEN <<x>> \o s
    ELSE <<Head(s)>> \o InsertSorted(Tail(s), x)

RECURSIVE SortRows(_)
SortRows(s) ==
    IF s = <<>> THEN <<>>
    ELSE InsertSorted(SortRows(SubSeq(s, 1, Len(s) - 1)), s[Len(s)])

(***************************************************************************)
(* The TA pool.                                                            *)
(***************************************************************************)
\* TA::all_variants(): five members of the round-robin pool and the
\* reserved member.
AllVariants == <<"Ta1", "Ta2", "Ta3", "Ta4", "Ta5", "Setu">>

\* tas: every variant but TA::Setu, in order.
Tas == SelectSeq(AllVariants, LAMBDA t : t # "Setu")

GroupLabel(n) == "Group " \o ToString(n)

\* (n as usize) % m for an isize n: a negative n wraps to n + 2^64, and
\* 2^64 mod m is computed by repeated squaring of 2 mod m.
RECURSIVE TwoPowMod(_, _)
TwoPowMod(e, m) == IF e = 0 THEN 1 % m ELSE (2 * TwoPowMod(e - 1, m)) % m

UsizeMod(n, m) == IF n >= 0 THEN n % m ELSE ((n % m) + TwoPowMod(64, m)) % m

(***************************************************************************)
(* Faulty variants of the allocation step, used to see that the            *)
(* properties below tell them from AllocRow.                               *)
(***************************************************************************)
\* The derived row keeps the week of the prior-week row.
AllocRow_KeepsWeek(row, index, group_id, week) ==
    LET att == row.attendance
        g == IF att = Some("yes")
             THEN IF index < 30
                  THEN IF index % 6 = 0 THEN group_id + 1 ELSE group_id
                  ELSE group_id + 1
             ELSE group_id
        slot == UsizeMod(g, Len(Tas))
        assigned_ta == Tas[((slot + week - 1) % Len(Tas)) + 1]
        r1 == IF att = Some("no")
              THEN [row EXCEPT !.group_id = GroupLabel(6), !.ta = Some("Setu")]
              ELSE IF att = Some("yes")
              THEN [row EXCEPT !.group_id = GroupLabel(slot + 1),
                               !.ta = Some(assigned_ta)]
              ELSE row
    IN  [row |-> r1, group_id |-> g]

\* The label is taken from the running counter instead of the slot.
AllocRow_LabelByCounter(row, index, group_id, week) ==
    LET att == row.attendance
        g == IF att = Some("yes")
             THEN IF index < 30
                  THEN IF index % 6 = 0 THEN group_id + 1 ELSE group_id
                  ELSE group_id + 1
             ELSE group_id
        slot == UsizeMod(g, Len(Tas))
        r1 == IF att = Some("no")
              THEN [row EXCEPT !.group_id = GroupLabel(6), !.ta = Some("Setu")]
              ELSE IF att = Some("yes")
              THEN [row EXCEPT !.group_id = GroupLabel(g + 1),
                               !.ta = Some(Tas[((slot + week - 1) % Len(Tas)) + 1])]
              ELSE row
    IN  [row |-> [r1 EXCEPT !.week = week], group_id |-> g]

\* The counter is advanced for absent rows as well.
AllocRow_AbsentAdvances(row, index, group_id, week) ==
    LET att == row.attendance
        g == IF att \in {Some("yes"), Some("no")}
             THEN IF index < 30
                  THEN IF index % 6 = 0 THEN group_id + 1 ELSE group_id
                  ELSE group_id + 1
             ELSE group_id
        slot == UsizeMod(g, Len(Tas))
        r1 == IF att = Some("no")
              THEN [row EXCEPT !.group_id = GroupLabel(6), !.ta = Some("Setu")]
              ELSE IF att = Some("yes")
              THEN [row EXCEPT !.group_id = GroupLabel(slot + 1),
                               !.ta = Some(Tas[((slot + week - 1) % Len(Tas)) + 1])]
              ELSE row
    IN  [row |-> [r1 EXCEPT !.week = week], group_id |-> g]

\* The two attendance tests are swapped.
AllocRow_Swapped(row, index, group_id, week) ==
    LET att == row.attendance
        g == IF att = Some("no")
             THEN IF index < 30
                  THEN IF index % 6 = 0 THEN group_id + 1 ELSE group_id
                  ELSE group_id + 1
             ELSE group_id
        slot == UsizeMod(g, Len(Tas))
        r1 == IF att = Some("yes")
              THEN [row EXCEPT !.group_id = GroupLabel(6), !.ta = Some("Setu")]
              ELSE IF att = Some("no")
              THEN [row EXCEPT !.group_id = GroupLabel(slot + 1),
                               !.ta = Some(Tas[((slot + week - 1) % Len(Tas)) + 1])]
              ELSE row
    IN  [row |-> [r1 EXCEPT !.week = week], group_id |-> g]

(***************************************************************************)
(* One iteration of the allocation loop for the row at `index` of the      *)
(* sorted prior-week rows: the row with group_id, ta and week set, and the *)
(* running counter after it.                                               *)
(***************************************************************************)
AllocRow(row, index, group_id, week) ==
    LET att == row.attendance
        g == IF att = Some("yes")
             THEN IF index < 30
                  THEN IF index % 6 = 0 THEN group_id + 1 ELSE group_id
                  ELSE group_id + 1
             ELSE group_id
        slot == UsizeMod(g, Len(Tas))
        assigned_ta == Tas[((slot + week - 1) % Len(Tas)) + 1]
        r1 == IF att = Some("no")
              THEN [row EXCEPT !.group_id = GroupLabel(6), !.ta = Some("Setu")]
              ELSE IF att = Some("yes")
              THEN [row EXCEPT !.group_id = GroupLabel(slot + 1),
                               !.ta = Some(assigned_ta)]
              ELSE row
    IN  [row |-> [r1 EXCEPT !.week = week], group_id |-> g]

(***************************************************************************)
(* Table: lookup and insert_or_update.                                     *)
(***************************************************************************)
\* Indices of the rows of `rows` with the key (name, week), in order.
Matches(rows, name, week) ==
    {i \in 1..Len(rows) : rows[i].name = name /\ rows[i].week = week}

Min(S) == CHOOSE x \in S : \A y \in S : x <= y

\* rows.iter().find(|r| r.name == name && r.week == week).cloned()
Find(rows, name, week) ==
    IF Matches(rows, name, week) = {} THEN None
    ELSE Some(rows[Min(Matches(rows, name, week))])

\* Table::insert_or_update: replace the row with the same (name, week) in
\* place, or append.
InsertOrUpdate(rows, row) ==
    IF Matches(rows, row.name, row.week) = {} THEN Append(rows, row)
    ELSE [rows EXCEPT ![Min(Matches(rows, row.name, row.week))] = row]

\* Faulty variant: the rows are pushed without looking for their key.
InsertAll_Push(rows, batch) == rows \o batch

\* for row in batch { table.insert_or_update(row) }
RECURSIVE InsertAll(_, _)
InsertAll(rows, batch) ==
    IF batch = <<>> THEN rows
    ELSE InsertAll(InsertOrUpdate(rows, Head(batch)), Tail(batch))

\* rows.iter().filter(|row| row.week == w).cloned().collect()
RowsOfWeek(rows, w) == SelectSeq(rows, LAMBDA r : r.week = w)

\* Faulty variant: the mail is not compared.
Position_IgnoresMail(rows, d) ==
    LET S == {i \in 1..Len(rows) : /\ rows[i].name = d.name
                                   /\ rows[i].week = d.week}
    IN  IF S = {} THEN 0 ELSE Min(S)

\* rows.iter().position(|row| name, mail and week match): 0 when none.
Position(rows, d) ==
    LET S == {i \in 1..Len(rows) : /\ rows[i].name = d.name
                                   /\ rows[i].mail = d.mail
                                   /\ rows[i].week = d.week}
    IN  IF S = {} THEN 0 ELSE Min(S)

\* rows.remove(pos)
RemoveAt(rows, pos) ==
    SubSeq(rows, 1, pos - 1) \o SubSeq(rows, pos + 1, Len(rows))

(***************************************************************************)
(* Submissions.                                                            *)
(***************************************************************************)
MkAssignment(github, points, submitted, pattern) ==
    [github_username |-> github, points_awarded |-> points,
     submitted |-> submitted, week_pattern |-> pattern]

\* get_github_to_name_mapping: the participant whose Github matches, if any.
GithubToName(github) ==
    IF github = "gh01" THEN Some(Name(1))
    ELSE IF github = "gh02" THEN Some(Name(2))
    ELSE None

\* HashMap::insert
MapInsert(m, k, v) == [x \in (DOMAIN m) \cup {k} |-> IF x = k THEN v ELSE m[x]]

\* Faulty variant: the loop stops after the first assignment.
BuildNameMap_FirstOnly(m, assignments) ==
    IF assignments = <<>> THEN m
    ELSE LET a == Head(assignments)
             n == GithubToName(a.github_username)
         IN  IF a.submitted /\ n # None THEN MapInsert(m, n[1], a) ELSE m

\* The loop building name_to_assignment from the submitted assignments: a
\* later assignment of the same participant replaces an earlier one.
RECURSIVE BuildNameMap(_, _)
BuildNameMap(m, assignments) ==
    IF assignments = <<>> THEN m
    ELSE LET a == Head(assignments)
             n == GithubToName(a.github_username)
         IN  BuildNameMap(IF a.submitted /\ n # None
                          THEN MapInsert(m, n[1], a) ELSE m,
                          Tail(assignments))

(***************************************************************************)
(* Merge with the existing target-week row, and enrichment.                *)
(***************************************************************************)
\* Faulty variant: the existing record's exercise_submitted and
\* exercise_test_passing are not carried over.
Merge_DropsExercise(row, existing, changed) ==
    IF existing # None
    THEN LET e == existing[1]
         IN  [row |-> [row EXCEPT
                  !.attendance = e.attendance,
                  !.fa = e.fa, !.fb = e.fb, !.fc = e.fc, !.fd = e.fd,
                  !.bonus_attempt = e.bonus_attempt,
                  !.bonus_answer_quality = e.bonus_answer_quality,
                  !.bonus_follow_up = e.bonus_follow_up,
                  !.exercise_good_documentation = e.exercise_good_documentation,
                  !.exercise_good_structure = e.exercise_good_structure,
                  !.total = e.total],
              changed |-> changed]
    ELSE [row |-> [row EXCEPT
                  !.attendance = Some("no"),
                  !.fa = Some(0), !.fb = Some(0), !.fc = Some(0), !.fd = Some(0),
                  !.bonus_attempt = Some(0),
                  !.bonus_answer_quality = Some(0),
                  !.bonus_follow_up = Some(0),
                  !.exercise_submitted = Some("no"),
                  !.exercise_test_passing = Some("no"),
                  !.exercise_good_documentation = Some("no"),
                  !.exercise_good_structure = Some("no"),
                  !.total = Some(0)],
          changed |-> TRUE]

\* Faulty variant: the existing record's total is not carried over.
Merge_DropsTotal(row, existing, changed) ==
    IF existing # None
    THEN LET e == existing[1]
         IN  [row |-> [row EXCEPT
                  !.attendance = e.attendance,
                  !.fa = e.fa, !.fb = e.fb, !.fc = e.fc, !.fd = e.fd,
                  !.bonus_attempt = e.bonus_attempt,
                  !.bonus_answer_quality = e.bonus_answer_quality,
                  !.bonus_follow_up = e.bonus_follow_up,
                  !.exercise_submitted = e.exercise_submitted,
                  !.exercise_test_passing = e.exercise_test_passing,
                  !.exercise_good_documentation = e.exercise_good_documentation,
                  !.exercise_good_structure = e.exercise_good_structure],
              changed |-> changed]
    ELSE [row |-> [row EXCEPT
                  !.attendance = Some("no"),
                  !.fa = Some(0), !.fb = Some(0), !.fc = Some(0), !.fd = Some(0),
                  !.bonus_attempt = Some(0),
                  !.bonus_answer_quality = Some(0),
                  !.bonus_follow_up = Some(0),
                  !.exercise_submitted = Some("no"),
                  !.exercise_test_passing = Some("no"),
                  !.exercise_good_documentation = Some("no"),
                  !.exercise_good_structure = Some("no"),
                  !.total = Some(0)],
          changed |-> TRUE]

\* if let Some(existing_row) = existing_row { carry over } else { defaults }
Merge(row, existing, changed) ==
    IF existing # None
    THEN LET e == existing[1]
         IN  [row |-> [row EXCEPT
                  !.attendance = e.attendance,
                  !.fa = e.fa, !.fb = e.fb, !.fc = e.fc, !.fd = e.fd,
                  !.bonus_attempt = e.bonus_attempt,
                  !.bonus_answer_quality = e.bonus_answer_quality,
                  !.bonus_follow_up = e.bonus_follow_up,
                  !.exercise_submitted = e.exercise_submitted,
                  !.exercise_test_passing = e.exercise_test_passing,
                  !.exercise_good_documentation = e.exercise_good_documentation,
                  !.exercise_good_structure = e.exercise_good_structure,
                  !.total = e.total],
              changed |-> changed]
    ELSE [row |-> [row EXCEPT
                  !.attendance = Some("no"),
                  !.fa = Some(0), !.fb = Some(0), !.fc = Some(0), !.fd = Some(0),
                  !.bonus_attempt = Some(0),
                  !.bonus_answer_quality = Some(0),
                  !.bonus_follow_up = Some(0),
                  !.exercise_submitted = Some("no"),
                  !.exercise_test_passing = Some("no"),
                  !.exercise_good_documentation = Some("no"),
                  !.exercise_good_structure = Some("no"),
                  !.total = Some(0)],
          changed |-> TRUE]

\* Faulty variant: a matching submission flags a change whether or not the
\* exercise fields differ.
Enrich_AlwaysFlags(row, name_to_assignment, week, changed) ==
    IF row.name \in DOMAIN name_to_assignment
       /\ name_to_assignment[row.name].week_pattern = Some(week)
    THEN LET a == name_to_assignment[row.name]
         IN  [row |-> [row EXCEPT
                  !.exercise_submitted = Some("yes"),
                  !.exercise_test_passing =
                      Some(IF a.points_awarded = "100" THEN "yes" ELSE "no")],
              changed |-> TRUE]
    ELSE [row |-> row, changed |-> changed]

\* Faulty variant: the week pattern of the submission is not compared.
Enrich_IgnoresWeek(row, name_to_assignment, week, changed) ==
    IF row.name \in DOMAIN name_to_assignment
    THEN LET a == name_to_assignment[row.name]
             new_exercise_submitted == Some("yes")
             new_exercise_test_passing ==
                 Some(IF a.points_awarded = "100" THEN "yes" ELSE "no")
         IN  IF \/ row.exercise_submitted # new_exercise_submitted
                \/ row.exercise_test_passing # new_exercise_test_passing
             THEN [row |-> [row EXCEPT
                       !.exercise_submitted = new_exercise_submitted,
                       !.exercise_test_passing = new_exercise_test_passing],
                   changed |-> TRUE]
             ELSE [row |-> row, changed |-> changed]
    ELSE [row |-> row, changed |-> changed]

\* if let Some(matching_assignment) = name_to_assignment.get(&row.name) { .. }
Enrich(row, name_to_assignment, week, changed) ==
    IF row.name \in DOMAIN name_to_assignment
       /\ name_to_assignment[row.name].week_pattern = Some(week)
    THEN LET a == name_to_assignment[row.name]
             new_exercise_submitted == Some("yes")
             new_exercise_test_passing ==
                 Some(IF a.points_awarded = "100" THEN "yes" ELSE "no")
         IN  IF \/ row.exercise_submitted # new_exercise_submitted
                \/ row.exercise_test_passing # new_exercise_test_passing
             THEN [row |-> [row EXCEPT
                       !.exercise_submitted = new_exercise_submitted,
                       !.exercise_test_passing = new_exercise_test_passing],
                   changed |-> TRUE]
             ELSE [row |-> row, changed |-> changed]
    ELSE [row |-> row, changed |-> changed]

(***************************************************************************)
(* Inputs: the requests the clients send, the answers of the submission    *)
(* source, and the Tables the process may start from (loaded from the      *)
(* durable store).                                                         *)
(***************************************************************************)
GetWeeks == {0 - 1, 0, 1, 2}

Row01Week0 ==
    MkRow(Name(1), "m1", 0, Some("yes"), "", None, Some(4), Some(1), Some("no"))
Row02Week0 ==
    MkRow(Name(2), "m2", 0, Some("no"), "", None, Some(2), Some(0), Some("no"))
\* A week-1 record as derived from Row01Week0 and then graded by a human
\* through POST /weekly_data.
Row01Week1 ==
    MkRow(Name(1), "m1", 1, Some("yes"), GroupLabel(1), Some("Ta1"),
          Some(7), Some(2), Some("yes"))
\* A week-0 record without attendance that carries the reserved TA.
Row02Week0Blank ==
    MkRow(Name(2), "m2", 0, None, GroupLabel(6), Some("Setu"), None, None, None)
\* Row01Week0 with the attendance corrected to absent.
Row01Week0Absent ==
    MkRow(Name(1), "m1", 0, Some("no"), "", None, Some(4), Some(1), Some("no"))

InitTables ==
    { <<>>,
      <<Row01Week0, Row02Week0>>,
      <<Row01Week0, Row01Week1>> }

PostBodies ==
    { <<>>,
      <<Row01Week1>>,
      <<Row01Week0Absent>>,
      <<Row02Week0, Row02Week0Blank>> }

DeleteRows ==
    { [name |-> Name(1), mail |-> "m1", week |-> 0],
      [name |-> Name(1), mail |-> "mx", week |-> 1] }

FetchResults ==
    { <<>>,
      <<MkAssignment("gh01", "100", TRUE, Some(1))>>,
      <<MkAssignment("gh01", "50", TRUE, Some(1)),
        MkAssignment("gh02", "100", FALSE, Some(1))>> }

(***************************************************************************)
(* Request slots.                                                          *)
(***************************************************************************)
NoResp == [status |-> 0, message |-> "", rows |-> <<>>]

Idle ==
    [pc |-> "idle", kind |-> "none", week |-> 0, body |-> <<>>,
     assignments |-> <<>>, name_to_assignment |-> <<>>,
     prev_week_rows |-> <<>>, index |-> 0, group_id |-> 0 - 1,
     data_changed |-> FALSE, row |-> None,
     rows_to_update |-> <<>>, result_rows |-> <<>>, resp |-> NoResp,
     \* history of the request, read by the properties only
     existing |-> <<>>, merged |-> <<>>, wrote |-> FALSE,
     solo |-> FALSE, pred |-> None]

AllocIdle == [week |-> 0, rows |-> <<>>, idx |-> 0, group_id |-> 0 - 1,
              out |-> <<>>, counters |-> <<>>]

InFlight(r) == req[r].pc \notin {"idle", "done", "panicked"}

Respond(rq, status, message, rows) ==
    [rq EXCEPT !.pc = "done",
               !.resp = [status |-> status, message |-> message, rows |-> rows]]

\* A request is accepted into the lowest free slot; every request in flight
\* then has company.
Accept(r, rq) ==
    /\ ~InFlight(r)
    /\ \A s \in Slots : s < r => InFlight(s)
    /\ started < MaxReqs
    /\ started' = started + 1
    /\ LET alone == \A s \in Slots : ~InFlight(s)
       IN  req' = [s \in Slots |->
                     IF s = r
                     THEN [rq EXCEPT !.solo = alone,
                                     !.pred = IF alone THEN hist.last ELSE None]
                     ELSE IF InFlight(s) THEN [req[s] EXCEPT !.solo = FALSE]
                     ELSE req[s]]
    /\ hist' = [hist EXCEPT !.last = None]

Init ==
    /\ table \in InitTables
    /\ db = table
    /\ lock = 0
    /\ poisoned = FALSE
    /\ req = [s \in Slots |-> Idle]
    /\ started = 0
    /\ hist = [failed |-> FALSE, last |-> None]
    /\ alloc = AllocIdle

(***************************************************************************)
(* state.lock().unwrap(): a request waits for the Mutex; on a poisoned     *)
(* Mutex the unwrap panics and the guard is dropped at once.               *)
(***************************************************************************)
LockPoints == {"scope1", "step2", "lookup", "step4", "post", "del"}

\* Faulty variant: the critical section is entered without taking the Mutex.
Acquire_NoLock(r) ==
    /\ req[r].pc \in LockPoints
    /\ lock = 0
    /\ IF poisoned
       THEN req' = [req EXCEPT ![r].pc = "panicked"]
       ELSE req' = [req EXCEPT ![r].pc = req[r].pc \o "_cs"]
    /\ UNCHANGED <<table, db, lock, poisoned, started, hist, alloc>>

Acquire(r) ==
    /\ req[r].pc \in LockPoints
    /\ lock = 0
    /\ IF poisoned
       THEN /\ req' = [req EXCEPT ![r].pc = "panicked"]
            /\ lock' = lock
       ELSE /\ req' = [req EXCEPT ![r].pc = req[r].pc \o "_cs"]
            /\ lock' = r
    /\ UNCHANGED <<table, db, poisoned, started, hist, alloc>>

(***************************************************************************)
(* GET /weekly_data/{week}: get_weekly_data_or_common.                     *)
(***************************************************************************)
GetUnauthorized(r) ==
    /\ Accept(r, Respond([Idle EXCEPT !.kind = "get"], 401,
                         "Unauthorized: missing or invalid token", <<>>))
    /\ UNCHANGED <<table, db, lock, poisoned, alloc>>

GetStart(r) ==
    /\ \E w \in GetWeeks :
          Accept(r, [Idle EXCEPT !.kind = "get", !.week = w, !.pc = "scope1"])
    /\ UNCHANGED <<table, db, lock, poisoned, alloc>>

\* Faulty variant: the early return of week 0 leaves the Mutex held.
GetScope1_KeepsLock(r) ==
    /\ req[r].pc = "scope1_cs"
    /\ lock' = IF req[r].week = 0 /\ table # <<>> THEN lock ELSE 0
    /\ req' = [req EXCEPT ![r] =
                 IF req[r].week = 0 /\ table # <<>>
                 THEN Respond(req[r], 200, "", RowsOfWeek(table, 0))
                 ELSE IF req[r].week >= 1
                 THEN [req[r] EXCEPT !.pc = "fetch"]
                 ELSE Respond(req[r], 400, "Invalid week number", <<>>)]
    /\ UNCHANGED <<table, db, poisoned, started, hist, alloc>>

\* Scope 1: the week == 0 case; then the dispatch on week >= 1.
GetScope1(r) ==
    /\ req[r].pc = "scope1_cs"
    /\ lock' = 0
    /\ req' = [req EXCEPT ![r] =
                 IF req[r].week = 0 /\ table # <<>>
                 THEN Respond(req[r], 200, "", RowsOfWeek(table, 0))
                 ELSE IF req[r].week >= 1
                 THEN [req[r] EXCEPT !.pc = "fetch"]
                 ELSE Respond(req[r], 400, "Invalid week number", <<>>)]
    /\ UNCHANGED <<table, db, poisoned, started, hist, alloc>>

\* Step 1: get_submitted_assignments(week).await.unwrap() and the map.
GetFetch(r) ==
    /\ req[r].pc = "fetch"
    /\ \E a \in FetchResults :
          req' = [req EXCEPT ![r].assignments = a,
                             ![r].name_to_assignment = BuildNameMap(<<>>, a),
                             ![r].pc = "step2"]
    /\ UNCHANGED <<table, db, lock, poisoned, started, hist, alloc>>

GetFetchFail(r) ==
    /\ req[r].pc = "fetch"
    /\ req' = [req EXCEPT ![r].pc = "panicked"]
    /\ hist' = [hist EXCEPT !.failed = TRUE]
    /\ UNCHANGED <<table, db, lock, poisoned, started, alloc>>

\* The head of the for loop: the iterator is exhausted, or the next row is
\* allocated and waits for the lookup of its existing record.
LoopHead(rq) ==
    IF rq.index = Len(rq.prev_week_rows)
    THEN [rq EXCEPT !.pc = "step4"]
    ELSE LET a == AllocRow(rq.prev_week_rows[rq.index + 1], rq.index,
                           rq.group_id, rq.week)
         IN  [rq EXCEPT !.row = Some(a.row), !.group_id = a.group_id,
                        !.pc = "lookup"]

\* Step 2: the prior-week rows, sorted.
GetStep2(r) ==
    /\ req[r].pc = "step2_cs"
    /\ lock' = 0
    /\ req' = [req EXCEPT ![r] =
                 LoopHead([req[r] EXCEPT !.prev_week_rows =
                             SortRows(RowsOfWeek(table, req[r].week - 1))])]
    /\ UNCHANGED <<table, db, poisoned, started, hist, alloc>>

\* One pass of the loop body after the allocation: the lookup of the existing
\* row in the Table, then merge, enrichment and the pushes.
RowStep(rq, rows) ==
    LET existing_row == Find(rows, rq.row[1].name, rq.week)
        m == Merge(rq.row[1], existing_row, rq.data_changed)
        e == Enrich(m.row, rq.name_to_assignment, rq.week, m.changed)
    IN  LoopHead([rq EXCEPT
            !.data_changed = e.changed,
            !.rows_to_update = Append(rq.rows_to_update, e.row),
            !.result_rows = Append(rq.result_rows, e.row),
            !.index = rq.index + 1,
            !.row = None,
            !.existing = Append(rq.existing, existing_row),
            !.merged = Append(rq.merged, m.row)])

GetLookup(r) ==
    /\ req[r].pc = "lookup_cs"
    /\ lock' = 0
    /\ req' = [req EXCEPT ![r] = RowStep(req[r], table)]
    /\ UNCHANGED <<table, db, poisoned, started, hist, alloc>>

\* Faulty variant: the database is written whether or not data changed.
GetStep4_AlwaysWrites(r) ==
    /\ req[r].pc = "step4_cs"
    /\ lock' = 0
    /\ table' = InsertAll(table, req[r].rows_to_update)
    /\ db' = table'
    /\ req' = [req EXCEPT ![r] =
                 Respond([req[r] EXCEPT !.wrote = TRUE],
                         200, "", req[r].result_rows)]
    /\ hist' = [hist EXCEPT !.last =
                  IF req[r].solo
                  THEN Some([week |-> req[r].week,
                             assignments |-> req[r].assignments,
                             result_rows |-> req[r].result_rows])
                  ELSE None]
    /\ UNCHANGED <<poisoned, started, alloc>>

\* Step 4: the batch update, and the write to the database if data changed.
GetStep4(r) ==
    /\ req[r].pc = "step4_cs"
    /\ lock' = 0
    /\ table' = InsertAll(table, req[r].rows_to_update)
    /\ db' = IF req[r].data_changed THEN table' ELSE db
    /\ req' = [req EXCEPT ![r] =
                 Respond([req[r] EXCEPT !.wrote = req[r].data_changed],
                         200, "", req[r].result_rows)]
    /\ hist' = [hist EXCEPT !.last =
                  IF req[r].solo
                  THEN Some([week |-> req[r].week,
                             assignments |-> req[r].assignments,
                             result_rows |-> req[r].result_rows])
                  ELSE None]
    /\ UNCHANGED <<poisoned, started, alloc>>

\* write_to_db(..).unwrap() fails: the handler panics holding the guard.
GetStep4WriteFail(r) ==
    /\ req[r].pc = "step4_cs"
    /\ req[r].data_changed
    /\ lock' = 0
    /\ poisoned' = TRUE
    /\ table' = InsertAll(table, req[r].rows_to_update)
    /\ req' = [req EXCEPT ![r].pc = "panicked", ![r].wrote = TRUE]
    /\ hist' = [hist EXCEPT !.failed = TRUE]
    /\ UNCHANGED <<db, started, alloc>>

(***************************************************************************)
(* POST /weekly_data/{week}: add_weekly_data.                              *)
(***************************************************************************)
PostStart(r) ==
    /\ \E b \in PostBodies :
          Accept(r, IF b = <<>>
                    THEN Respond([Idle EXCEPT !.kind = "post"], 400,
                                 "No student data provided", <<>>)
                    ELSE [Idle EXCEPT !.kind = "post", !.body = b,
                                      !.pc = "post"])
    /\ UNCHANGED <<table, db, lock, poisoned, alloc>>

PostCs(r) ==
    /\ req[r].pc = "post_cs"
    /\ lock' = 0
    /\ table' = InsertAll(table, req[r].body)
    /\ db' = table'
    /\ req' = [req EXCEPT ![r] =
                 Respond([req[r] EXCEPT !.wrote = TRUE], 200,
                         "Weekly data inserted/updated successfully", <<>>)]
    /\ UNCHANGED <<poisoned, started, hist, alloc>>

\* write_to_db(..)? fails: the error is returned, the guard dropped.
PostCsWriteFail(r) ==
    /\ req[r].pc = "post_cs"
    /\ lock' = 0
    /\ table' = InsertAll(table, req[r].body)
    /\ req' = [req EXCEPT ![r] =
                 Respond([req[r] EXCEPT !.wrote = TRUE], 500, "", <<>>)]
    /\ hist' = [hist EXCEPT !.failed = TRUE]
    /\ UNCHANGED <<db, poisoned, started, alloc>>

(***************************************************************************)
(* POST /del/{week}: delete_data.                                          *)
(***************************************************************************)
DelStart(r) ==
    /\ \E d \in DeleteRows :
          Accept(r, [Idle EXCEPT !.kind = "del", !.body = <<d>>, !.pc = "del"])
    /\ UNCHANGED <<table, db, lock, poisoned, alloc>>

DelCs(r) ==
    /\ req[r].pc = "del_cs"
    /\ lock' = 0
    /\ LET pos == Position(table, req[r].body[1])
       IN  IF pos > 0
           THEN /\ table' = RemoveAt(table, pos)
                /\ db' = table'
                /\ req' = [req EXCEPT ![r] =
                             Respond([req[r] EXCEPT !.wrote = TRUE], 200,
                                     "Weekly data deleted successfully", <<>>)]
           ELSE /\ UNCHANGED <<table, db>>
                /\ req' = [req EXCEPT ![r] =
                             Respond(req[r], 200,
                                     "No matching data found to delete", <<>>)]
    /\ UNCHANGED <<poisoned, started, hist, alloc>>

DelCsWriteFail(r) ==
    /\ req[r].pc = "del_cs"
    /\ Position(table, req[r].body[1]) > 0
    /\ lock' = 0
    /\ table' = RemoveAt(table, Position(table, req[r].body[1]))
    /\ req' = [req EXCEPT ![r] =
                 Respond([req[r] EXCEPT !.wrote = TRUE], 500, "", <<>>)]
    /\ hist' = [hist EXCEPT !.failed = TRUE]
    /\ UNCHANGED <<db, poisoned, started, alloc>>

Next ==
    \E r \in Slots :
        \/ Acquire(r)
        \/ GetUnauthorized(r)
        \/ GetStart(r)
        \/ GetScope1(r)
        \/ GetFetch(r)
        \/ GetFetchFail(r)
        \/ GetStep2(r)
        \/ GetLookup(r)
        \/ GetStep4(r)
        \/ GetStep4WriteFail(r)
        \/ PostStart(r)
        \/ PostCs(r)
        \/ PostCsWriteFail(r)
        \/ DelStart(r)
        \/ DelCs(r)
        \/ DelCsWriteFail(r)

Spec == Init /\ [][Next]_vars

(***************************************************************************)
(* The allocator on its own: the allocation loop of lines 147-164 run over *)
(* sorted prior-week rosters of up to MaxRoster present rows, a few absent *)
(* rows and a row without attendance.                                      *)
(***************************************************************************)
AllocWeeks == {1, 2, 3}
AbsentCounts == {0, 1, 2}
BlankCounts == {0, 1}

\* A prior-week roster in Table order: the rows without attendance, then
\* the absent rows, then the present rows; totals repeat with period 3.
Roster(week, nBlank, nNo, nYes) ==
    [i \in 1..(nBlank + nNo + nYes) |->
        MkRow(Name(i), "m", week,
              IF i <= nBlank THEN None
              ELSE IF i <= nBlank + nNo THEN Some("no") ELSE Some("yes"),
              "", None, Some(i % 3), Some(0), Some("no"))]

AllocInit ==
    /\ table = <<>>
    /\ db = <<>>
    /\ lock = 0
    /\ poisoned = FALSE
    /\ req = [s \in Slots |-> Idle]
    /\ started = 0
    /\ hist = [failed |-> FALSE, last |-> None]
    /\ \E w \in AllocWeeks, nBlank \in BlankCounts, nNo \in AbsentCounts,
          nYes \in 0..MaxRoster :
          alloc = [AllocIdle EXCEPT
                     !.week = w,
                     !.rows = SortRows(RowsOfWeek(
                                  Roster(w - 1, nBlank, nNo, nYes), w - 1))]

AllocStep ==
    /\ alloc.idx < Len(alloc.rows)
    /\ LET a == AllocRow(alloc.rows[alloc.idx + 1], alloc.idx,
                         alloc.group_id, alloc.week)
       IN  alloc' = [alloc EXCEPT !.idx = alloc.idx + 1,
                                  !.group_id = a.group_id,
                                  !.out = Append(alloc.out, a.row),
                                  !.counters = Append(alloc.counters, a.group_id)]
    /\ UNCHANGED <<table, db, lock, poisoned, req, started, hist>>

AllocNext == AllocStep

AllocSpec == AllocInit /\ [][AllocNext]_vars

TypeOK == lock \in {0} \cup Slots

(***************************************************************************)
(* Properties.                                                             *)
(***************************************************************************)
Unique(rows) ==
    \A i, j \in 1..Len(rows) :
        (rows[i].name = rows[j].name /\ rows[i].week = rows[j].week) => i = j

\* A reconcile request (GET with week >= 1) that answered 200.
ReconcileDone(r) ==
    /\ req[r].kind = "get"
    /\ req[r].pc = "done"
    /\ req[r].resp.status = 200
    /\ req[r].week >= 1

\* C1: whatever the interleaving of reconcile, add_weekly_data and
\* delete_data requests, the Table holds at most one Row per (name, week).
C1_Uniqueness == Unique(table)

\* A reconcile and a POST have both committed rows into a Table that holds
\* rows of two weeks.
C1_Witness ==
    /\ \E r \in Slots : ReconcileDone(r) /\ req[r].result_rows # <<>>
    /\ \E r \in Slots : req[r].kind = "post" /\ req[r].resp.status = 200
    /\ Len(table) >= 3

\* The second of two reconcile requests that ran one after the other, alone,
\* for the same week with the same submissions.
Repeated(r) ==
    /\ ReconcileDone(r)
    /\ req[r].solo
    /\ req[r].pred # None
    /\ req[r].pred[1].week = req[r].week
    /\ req[r].pred[1].assignments = req[r].assignments

\* C2: the second of two successive reconcile calls for the same week with
\* the same submissions flags no change, writes nothing to the durable store
\* and returns the rows the first call returned.
C2_Idempotent ==
    \A r \in Slots :
        Repeated(r) =>
            /\ ~req[r].data_changed
            /\ ~req[r].wrote
            /\ req[r].result_rows = req[r].pred[1].result_rows

\* A repeated reconcile whose first call had enriched a row from a passing
\* submission.
C2_Witness ==
    \E r \in Slots :
        /\ Repeated(r)
        /\ \E i \in 1..Len(req[r].result_rows) :
              /\ req[r].result_rows[i].exercise_test_passing = Some("yes")
              /\ req[r].result_rows[i].total = Some(0)

\* The attendance and grade fields of a row.
Graded(row) ==
    <<row.attendance, row.total, row.fa, row.fb, row.fc, row.fd,
      row.bonus_attempt, row.bonus_answer_quality, row.bonus_follow_up>>

\* C3: a reconcile commit never changes the attendance, total, fa..fd or
\* bonus fields of a target-week Row that is in the Table at commit time
\* (stated for the runs without any persistence or fetch failure).
C3_NeverOverwrites ==
    [][\A r \in Slots :
          (~hist'.failed /\ req[r].pc = "step4_cs" /\ req'[r].pc # "step4_cs") =>
              \A i \in 1..Len(table) :
                  table[i].week = req[r].week =>
                      Graded(table'[i]) = Graded(table[i])]_vars

\* C4: when no request is in progress and no persistence (or fetch) failure
\* has happened, the durable store equals the in-memory Table.
C4_Mirrored ==
    (~hist.failed /\ \A r \in Slots : ~InFlight(r)) => db = table

\* The allocator harness has run over a roster of exactly 36 rows, all
\* present, for target week 2.
Roster36Done ==
    /\ alloc.week = 2
    /\ Len(alloc.rows) = 36
    /\ alloc.idx = 36
    /\ \A i \in 1..36 : alloc.rows[i].attendance = Some("yes")

\* Rows at sorted indices 0-29: five groups of six, Group 1 to Group 5, the
\* TA of a group taken from the pool at (slot + 1) mod 5.
First30InGroupsOfSix ==
    \A i \in 0..29 :
        LET slot == i \div 6
        IN  /\ alloc.counters[i + 1] = slot
            /\ alloc.out[i + 1].group_id = "Group " \o ToString(slot + 1)
            /\ alloc.out[i + 1].ta = Some(Tas[((slot + 1) % 5) + 1])

\* C5 as stated: rows 30-35 are labelled Group 6 to Group 11.
C5_AsStated ==
    Roster36Done =>
        /\ First30InGroupsOfSix
        /\ \A i \in 30..35 :
              alloc.out[i + 1].group_id = "Group " \o ToString(i - 24)

\* C5 (amended): with 36 present rows, week 2 and a pool of 5, rows 0-29
\* form Group 1 to Group 5 of six rows each with the TA at (slot + 1) mod 5;
\* each of rows 30-35 advances the counter by one (counter values 5 to 10)
\* and is labelled by its slot, counter mod 5: Group 1, 2, 3, 4, 5, 1, again
\* with the TA at (slot + 1) mod 5.
C5_Allocation36 ==
    Roster36Done =>
        /\ First30InGroupsOfSix
        /\ \A i \in 30..35 :
              LET slot == (i - 25) % 5
              IN  /\ alloc.counters[i + 1] = i - 25
                  /\ alloc.out[i + 1].group_id = "Group " \o ToString(slot + 1)
                  /\ alloc.out[i + 1].ta = Some(Tas[((slot + 1) % 5) + 1])

C5_Witness == Roster36Done /\ Len(Tas) = 5

\* C6: a row whose attendance is "no" gets group_id "Group 6" and ta "Setu"
\* at every position and for every week, and leaves the counter as it was.
C6_AbsentRows ==
    \A i \in 1..alloc.idx :
        alloc.rows[i].attendance = Some("no") =>
            /\ alloc.out[i].group_id = "Group 6"
            /\ alloc.out[i].ta = Some("Setu")
            /\ alloc.counters[i] =
                   IF i = 1 THEN 0 - 1 ELSE alloc.counters[i - 1]

\* An absent row allocated past index 30, after present rows, for week 3.
C6_Witness ==
    \E i \in 1..alloc.idx :
        /\ i > 31
        /\ alloc.week = 3
        /\ alloc.rows[i].attendance = Some("no")
        /\ alloc.rows[1].attendance = Some("yes")

\* C7 as stated: a derived row has ta "Setu" only if its prior-week
\* attendance was "no", and a present row gets neither "Setu" nor "Group 6"
\* (stated for the runs without any persistence or fetch failure).
C7_AsStated ==
    ~hist.failed =>
    \A r \in Slots : \A i \in 1..Len(req[r].result_rows) :
        LET prev == req[r].prev_week_rows[i]
            row == req[r].result_rows[i]
        IN  /\ row.ta = Some("Setu") => prev.attendance = Some("no")
            /\ prev.attendance = Some("yes") =>
                   row.ta # Some("Setu") /\ row.group_id # "Group 6"

\* C7 (amended): a derived row whose prior-week attendance was "yes" gets
\* neither ta "Setu" nor the label "Group 6"; a row whose prior-week
\* attendance was neither "yes" nor "no" keeps the ta and group_id of its
\* prior-week row (which may be "Setu"); so a derived row has ta "Setu" only
\* if its prior-week attendance was "no" or its prior-week row already
\* carried "Setu".
C7_SetuReserved ==
    \A r \in Slots : \A i \in 1..Len(req[r].result_rows) :
        LET prev == req[r].prev_week_rows[i]
            row == req[r].result_rows[i]
        IN  /\ prev.attendance = Some("yes") =>
                   row.ta # Some("Setu") /\ row.group_id # "Group 6"
            /\ prev.attendance \notin {Some("yes"), Some("no")} =>
                   row.ta = prev.ta /\ row.group_id = prev.group_id
            /\ row.ta = Some("Setu") =>
                   \/ prev.attendance = Some("no")
                   \/ prev.ta = Some("Setu")

\* A reconcile output with a present row and an absent row, the absent one
\* with the reserved TA.
C7_Witness ==
    \E r \in Slots :
        /\ Len(req[r].result_rows) = 2
        /\ req[r].prev_week_rows[1].attendance = Some("yes")
        /\ req[r].result_rows[1].ta = Some("Ta1")
        /\ req[r].prev_week_rows[2].attendance = Some("no")
        /\ req[r].result_rows[2].ta = Some("Setu")

\* Some derived row of the request had no existing target-week record, or
\* had exercise_submitted / exercise_test_passing changed by enrichment.
Flagged(r) ==
    \E i \in 1..Len(req[r].result_rows) :
        \/ req[r].existing[i] = None
        \/ req[r].merged[i].exercise_submitted
               # req[r].result_rows[i].exercise_submitted
        \/ req[r].merged[i].exercise_test_passing
               # req[r].result_rows[i].exercise_test_passing

\* A reconcile request that went through its commit.
Committed(r) ==
    \/ ReconcileDone(r)
    \/ req[r].kind = "get" /\ req[r].pc = "panicked" /\ req[r].wrote

\* C8: a reconcile request writes the Table to the durable store if and only
\* if some derived row had no existing target-week record or was changed by
\* enrichment; its commit puts every derived row into the Table.
C8_WritesIffChanged ==
    /\ [](\A r \in Slots : Committed(r) => (req[r].wrote <=> Flagged(r)))
    /\ [][\A r \in Slots :
            (req[r].pc = "step4_cs" /\ req'[r].pc # "step4_cs") =>
                /\ \A i \in 1..Len(req[r].rows_to_update) :
                      \E j \in 1..Len(table') :
                          table'[j] = req[r].rows_to_update[i]
                /\ Len(req[r].rows_to_update) = Len(req[r].prev_week_rows)
                /\ req'[r].pc = "done" =>
                      db' = IF Flagged(r) THEN table' ELSE db]_vars

\* A reconcile that committed rows and did not write.
C8_Witness ==
    \E r \in Slots :
        /\ ReconcileDone(r)
        /\ req[r].result_rows # <<>>
        /\ ~req[r].wrote

\* The fields the merge carries over or initializes.
MergeFields(row) ==
    <<row.attendance, row.total, row.fa, row.fb, row.fc, row.fd,
      row.bonus_attempt, row.bonus_answer_quality, row.bonus_follow_up,
      row.exercise_submitted, row.exercise_test_passing,
      row.exercise_good_documentation, row.exercise_good_structure>>

DefaultFields ==
    <<Some("no"), Some(0), Some(0), Some(0), Some(0), Some(0),
      Some(0), Some(0), Some(0),
      Some("no"), Some("no"), Some("no"), Some("no")>>

\* C9: after the merge, a row with an existing (name, W) record has that
\* record's attendance, total, fa..fd, bonus and exercise fields, and does
\* not by itself set the change flag; a row without one has the defaults
\* and the change flag is set.
C9_Merge ==
    \A r \in Slots :
        /\ \A i \in 1..Len(req[r].merged) :
              IF req[r].existing[i] # None
              THEN /\ req[r].existing[i][1].name = req[r].merged[i].name
                   /\ req[r].existing[i][1].week = req[r].week
                   /\ MergeFields(req[r].merged[i])
                          = MergeFields(req[r].existing[i][1])
              ELSE /\ MergeFields(req[r].merged[i]) = DefaultFields
                   /\ req[r].data_changed
        /\ (\A i \in 1..Len(req[r].merged) :
               /\ req[r].existing[i] # None
               /\ req[r].result_rows[i] = req[r].merged[i])
           => ~req[r].data_changed

\* A merged row that took a human-entered total and grade, not the defaults.
C9_Witness ==
    \E r \in Slots : \E i \in 1..Len(req[r].merged) :
        /\ req[r].existing[i] # None
        /\ req[r].merged[i].total = Some(7)
        /\ req[r].merged[i].fa = Some(2)
        /\ ~req[r].data_changed

Max(S) == CHOOSE x \in S : \A y \in S : x >= y

\* The submitted assignments that resolve to the participant `name`.
SubmittedFor(assignments, name) ==
    {k \in 1..Len(assignments) :
        /\ assignments[k].submitted
        /\ GithubToName(assignments[k].github_username) = Some(name)}

\* The row's name maps to a submitted assignment whose pattern is week w.
Matching(assignments, name, w) ==
    /\ SubmittedFor(assignments, name) # {}
    /\ assignments[Max(SubmittedFor(assignments, name))].week_pattern = Some(w)

\* C10: a row with a matching submission for week W has exercise_submitted
\* "yes" and exercise_test_passing "yes" exactly when points_awarded is
\* "100"; any other row is left as merged, and enrichment of such rows does
\* not set the change flag.
C10_Enrichment ==
    \A r \in Slots :
        /\ \A i \in 1..Len(req[r].result_rows) :
              LET row == req[r].result_rows[i]
                  m == req[r].merged[i]
                  a == req[r].assignments
              IN  IF Matching(a, row.name, req[r].week)
                  THEN LET p == a[Max(SubmittedFor(a, row.name))].points_awarded
                       IN  row = [m EXCEPT
                                   !.exercise_submitted = Some("yes"),
                                   !.exercise_test_passing =
                                       Some(IF p = "100" THEN "yes" ELSE "no")]
                  ELSE row = m
        /\ (\A i \in 1..Len(req[r].result_rows) :
               /\ req[r].existing[i] # None
               /\ ~Matching(req[r].assignments, req[r].result_rows[i].name,
                            req[r].week))
           => ~req[r].data_changed

\* Enrichment turned a default row into a passing submission, and left
\* another row of the same batch untouched.
C10_Witness ==
    \E r \in Slots : \E i, j \in 1..Len(req[r].result_rows) :
        /\ req[r].merged[i].exercise_test_passing = Some("no")
        /\ req[r].result_rows[i].exercise_test_passing = Some("yes")
        /\ req[r].result_rows[i].exercise_submitted = Some("yes")
        /\ req[r].result_rows[j] = req[r].merged[j]


(***************************************************************************)
(* Two reconciliations side by side: both start from the same Table and    *)
(* week, each with its own answer of the submission source, and neither    *)
(* commits, so each lookup of either run reads that same Table.            *)
(***************************************************************************)
DetWeeks == {1, 2}

DetAssignments ==
    { MkAssignment("gh01", "100", TRUE, Some(1)),
      MkAssignment("gh01", "50", TRUE, Some(1)),
      MkAssignment("gh02", "100", TRUE, Some(1)) }

Range(s) == {s[i] : i \in DOMAIN s}

\* The answers of the submission source: the assignments of a week in any
\* order, each at most once.
DetFetches ==
    {s \in UNION {[1..n -> DetAssignments] :
                      n \in 0..Cardinality(DetAssignments)} :
        \A i, j \in DOMAIN s : i # j => s[i] # s[j]}

\* The request as it leaves step 2, the name map built and the prior-week
\* rows read and sorted.
DetRun(rows, week, assignments) ==
    LoopHead([Idle EXCEPT
        !.kind = "get", !.week = week,
        !.assignments = assignments,
        !.name_to_assignment = BuildNameMap(<<>>, assignments),
        !.prev_week_rows = SortRows(RowsOfWeek(rows, week - 1))])

DetInit ==
    /\ table \in InitTables
    /\ db = table
    /\ lock = 0
    /\ poisoned = FALSE
    /\ started = 0
    /\ hist = [failed |-> FALSE, last |-> None]
    /\ alloc = AllocIdle
    /\ \E w \in DetWeeks, s1, s2 \in DetFetches :
          /\ Range(s1) = Range(s2)
          /\ req = [s \in Slots |->
                      DetRun(table, w, IF s = 1 THEN s1 ELSE s2)]

DetStep(r) ==
    /\ req[r].pc = "lookup"
    /\ req' = [req EXCEPT ![r] = RowStep(req[r], table)]
    /\ UNCHANGED <<table, db, lock, poisoned, started, hist, alloc>>

DetNext == \E r \in Slots : DetStep(r)

DetSpec == DetInit /\ [][DetNext]_vars

DetDone == \A r \in Slots : req[r].pc = "step4"

SameOutcome ==
    /\ req[1].result_rows = req[2].result_rows
    /\ req[1].rows_to_update = req[2].rows_to_update
    /\ req[1].data_changed = req[2].data_changed

\* No two submitted assignments resolve to the same participant.
OnePerParticipant(s) ==
    \A i, j \in DOMAIN s :
        (/\ i # j
         /\ s[i].submitted /\ s[j].submitted
         /\ GithubToName(s[i].github_username) # None)
        => GithubToName(s[i].github_username)
             # GithubToName(s[j].github_username)

\* C11 as stated: two reconciliations of the same week from the same Table
\* with the same set of submitted assignments produce the same output rows
\* in the same order and the same change flag.
C11_AsStated ==
    (DetDone /\ Range(req[1].assignments) = Range(req[2].assignments))
        => SameOutcome

\* C11: two reconciliations of the same week from the same Table produce the
\* same output rows in the same order and the same change flag when they get
\* the same sequence of submitted assignments, or the same set of them with
\* no two submitted assignments resolving to the same participant.
C11_Deterministic ==
    (/\ DetDone
     /\ Range(req[1].assignments) = Range(req[2].assignments)
     /\ \/ req[1].assignments = req[2].assignments
        \/ OnePerParticipant(req[1].assignments))
        => SameOutcome

\* Two runs over the same two submissions in opposite orders, both done,
\* with two output rows of which one was enriched.
C11_Witness ==
    /\ DetDone
    /\ req[1].assignments # req[2].assignments
    /\ Range(req[1].assignments) = Range(req[2].assignments)
    /\ OnePerParticipant(req[1].assignments)
    /\ Len(req[1].assignments) = 2
    /\ Len(req[1].result_rows) = 2
    /\ \E i \in 1..2 : req[1].result_rows[i] # req[1].merged[i]


\* C12: an authorized GET of week 0 answers, whatever the Table holds, with
\* exactly the rows of week 0 in Table order and changes neither the Table
\* nor the database; the answer 400 "Invalid week number" is given only for
\* a week below 0.
C12_Week0 ==
    [][\A r \in Slots :
          (req[r].pc = "scope1_cs" /\ req'[r].pc = "done")
          => /\ req[r].week = 0
                => /\ req'[r].resp.status = 200
                   /\ req'[r].resp.rows
                        = SelectSeq(table, LAMBDA x : x.week = 0)
                   /\ table' = table
                   /\ db' = db
             /\ req'[r].resp.status = 400 => req[r].week < 0]_vars


\* The positions of the Table rows with the name, mail and week of d.
DeleteMatches(d) ==
    {i \in 1..Len(table) : /\ table[i].name = d.name
                           /\ table[i].mail = d.mail
                           /\ table[i].week = d.week}

\* C13: delete_data with no row of the given name, mail and week answers
\* with the "No matching data" message and leaves the Table and the database
\* alone; with a matching row it removes exactly that one row, keeps every
\* other row as it was and in order, and flushes the Table to the database.
C13_Delete ==
    [][\A r \in Slots :
          (req[r].pc = "del_cs" /\ req'[r].pc # "del_cs")
          => IF DeleteMatches(req[r].body[1]) = {}
             THEN /\ req'[r].resp.status = 200
                  /\ req'[r].resp.message = "No matching data found to delete"
                  /\ table' = table
                  /\ db' = db
                  /\ ~req'[r].wrote
             ELSE /\ \E p \in DeleteMatches(req[r].body[1]) :
                        /\ Len(table') = Len(table) - 1
                        /\ \A i \in 1..Len(table') :
                              table'[i] = table[IF i < p THEN i ELSE i + 1]
                  /\ req'[r].wrote
                  /\ req'[r].resp.status = 200
                        => /\ db' = table'
                           /\ req'[r].resp.message
                                = "Weekly data deleted successfully"
                  /\ req'[r].resp.status # 200 => hist'.failed]_vars

\* A delete removed one of two rows and flushed the remaining one.
C13_Witness ==
    \E r \in Slots :
        /\ req[r].kind = "del"
        /\ req[r].pc = "done"
        /\ req[r].resp.message = "Weekly data deleted successfully"
        /\ started = 1
        /\ Len(table) = 1
        /\ db = table


\* C14: a request rejected for a missing or invalid token, an empty body or
\* an invalid week number is rejected without having acquired the Table
\* lock, and leaves the Table and the database unchanged.
C14_RejectedEarly ==
    [][\A r \in Slots :
          (/\ req'[r] # req[r]
           /\ req'[r].pc = "done"
           /\ req'[r].resp.status \in {400, 401})
          => /\ lock # r
             /\ req[r].pc \notin {p \o "_cs" : p \in LockPoints}
             /\ table' = table
             /\ db' = db]_vars


\* The step of request r in which its write to the database fails.
FlushFails(r) ==
    /\ req[r].pc \in {"step4_cs", "post_cs", "del_cs"}
    /\ req'[r].wrote
    /\ \/ req'[r].pc = "panicked"
       \/ req'[r].pc = "done" /\ req'[r].resp.status = 500

\* C15: a failed write to the database is fatal only to the request that
\* made it: the request ends with an error, the rows it committed to the
\* Table stay, and the lock is left usable, so that every later request
\* that asks for the lock gets it.
C15_FailureIsLocal ==
    [][/\ \A r \in Slots :
            FlushFails(r)
            => /\ db' = db
               /\ table' = IF req[r].kind = "get"
                           THEN InsertAll(table, req[r].rows_to_update)
                           ELSE IF req[r].kind = "post"
                           THEN InsertAll(table, req[r].body)
                           ELSE RemoveAt(table,
                                         Position(table, req[r].body[1]))
               /\ lock' = 0
               /\ ~poisoned'
       /\ \A r \in Slots :
            (req[r].pc \in LockPoints /\ req'[r].pc # req[r].pc)
            => req'[r].pc = req[r].pc \o "_cs"]_vars


\* Reconcile a enriched its i-th row from a submission and committed it, and
\* the Table now holds the version without the submission that reconcile b
\* of the same week committed as its j-th row.
LostEnrichment(a, i, b, j) ==
    /\ a # b
    /\ ReconcileDone(a) /\ ReconcileDone(b)
    /\ req[a].week = req[b].week
    /\ i \in 1..Len(req[a].result_rows)
    /\ j \in 1..Len(req[b].result_rows)
    /\ req[a].result_rows[i].name = req[b].result_rows[j].name
    /\ req[a].result_rows[i].exercise_submitted = Some("yes")
    /\ req[a].merged[i].exercise_submitted # Some("yes")
    /\ req[b].result_rows[j].exercise_submitted # Some("yes")
    /\ Find(table, req[b].result_rows[j].name, req[b].week)
         = Some(req[b].result_rows[j])

\* C16: a reconcile replaces the row another reconcile of the same week has
\* enriched from a submission by a version without it only when its lookup
\* of that row did not see the enriched row, that is inside the window
\* between the lookup and the commit; the witness shows that the window is
\* reachable.
C16_RaceWindow ==
    \A a, b \in Slots :
        \A i \in 1..Len(req[a].result_rows), j \in 1..Len(req[b].result_rows) :
            LostEnrichment(a, i, b, j)
            => req[b].existing[j] # Some(req[a].result_rows[i])

\* Two reconciles of one week both looked a row up before either committed;
\* the first committed the row enriched from the submission, the second then
\* committed its default-initialised version, which the Table now holds.
C16_Witness ==
    \E a, b \in Slots :
        \E i \in 1..Len(req[a].result_rows), j \in 1..Len(req[b].result_rows) :
            /\ LostEnrichment(a, i, b, j)
            /\ req[a].existing[i] = None
            /\ req[b].existing[j] = None
            /\ req[b].result_rows[j].exercise_submitted = Some("no")
            /\ req[b].result_rows[j].total = Some(0)
            /\ ~hist.failed


\* The positions inside the critical sections.
CriticalSections == {p \o "_cs" : p \in LockPoints}

\* The Table after the whole in-memory mutation of request r.
WholeBatch(r) ==
    IF req[r].kind = "get" THEN InsertAll(table, req[r].rows_to_update)
    ELSE IF req[r].kind = "post" THEN InsertAll(table, req[r].body)
    ELSE IF Position(table, req[r].body[1]) > 0
    THEN RemoveAt(table, Position(table, req[r].body[1]))
    ELSE table

\* C17: only the request holding the lock is inside a critical section;
\* every change of the Table and every write to the database is one step of
\* the request that holds the lock, which applies its whole batch, writes
\* the Table as mutated and releases the lock, while no other request
\* moves: no request sees a Table with part of a batch applied.
C17_WritesUnderLock ==
    /\ [](\A r \in Slots : req[r].pc \in CriticalSections => lock = r)
    /\ [][(\/ table' # table
           \/ db' # db
           \/ \E r \in Slots : req'[r].wrote /\ ~req[r].wrote)
          => \E r \in Slots :
                /\ lock = r
                /\ lock' = 0
                /\ req[r].pc \in {"step4_cs", "post_cs", "del_cs"}
                /\ \A s \in Slots \ {r} : req'[s] = req[s]
                /\ table' = WholeBatch(r)
                /\ db' # db => db' = table']_vars

\* A reconcile committed its two rows and wrote them to the database while
\* another request was waiting for the lock in the middle of its loop.
C17_Witness ==
    \E r, s \in Slots :
        /\ ReconcileDone(r)
        /\ req[r].wrote
        /\ Len(req[r].result_rows) = 2
        /\ db = table
        /\ req[s].pc = "lookup"
        /\ req[s].index = 1


\* C18: the output of a reconcile of week W holds exactly one row per
\* prior-week row it read, in the same order, with the same name and the
\* week set to W; and no step of a reconcile removes a row of the Table or
\* adds or changes a row of a week other than W.
C18_Frame ==
    /\ [](\A r \in Slots :
            (/\ req[r].kind = "get"
             /\ \/ req[r].pc \in {"step4", "step4_cs"}
                \/ Committed(r))
            => /\ Len(req[r].result_rows) = Len(req[r].prev_week_rows)
               /\ \A i \in 1..Len(req[r].result_rows) :
                     /\ req[r].prev_week_rows[i].week = req[r].week - 1
                     /\ req[r].result_rows[i].name
                          = req[r].prev_week_rows[i].name
                     /\ req[r].result_rows[i].week = req[r].week)
    /\ [][\A r \in Slots :
            (req[r].kind = "get" /\ InFlight(r) /\ req'[r].pc # req[r].pc)
            => /\ Len(table') >= Len(table)
               /\ \A i \in 1..Len(table) :
                     /\ table'[i].name = table[i].name
                     /\ table'[i].week = table[i].week
                     /\ table[i].week # req[r].week => table'[i] = table[i]
               /\ \A i \in (Len(table) + 1)..Len(table') :
                     table'[i].week = req[r].week]_vars

\* A reconcile of week 1 committed two derived rows into a Table that still
\* holds its two week-0 rows.
C18_Witness ==
    \E r \in Slots :
        /\ ReconcileDone(r)
        /\ req[r].week = 1
        /\ Len(req[r].result_rows) = 2
        /\ Len(table) = 4
        /\ table[1] = Row01Week0
        /\ table[2] = Row02Week0
        /\ table[3].week = 1 /\ table[4].week = 1


(***************************************************************************)
(* Progress.  The runtime keeps polling every handler it has started, the  *)
(* awaited fetch returns or fails, and the Mutex is fair: a request that   *)
(* finds it free again and again gets it.  No fairness is put on the       *)
(* arrival of requests.                                                    *)
(***************************************************************************)
\* The steps of an accepted request between two lock acquisitions.
Proceed(r) ==
    \/ GetScope1(r)
    \/ GetFetch(r)
    \/ GetFetchFail(r)
    \/ GetStep2(r)
    \/ GetLookup(r)
    \/ GetStep4(r)
    \/ GetStep4WriteFail(r)
    \/ PostCs(r)
    \/ PostCsWriteFail(r)
    \/ DelCs(r)
    \/ DelCsWriteFail(r)

FairSpec ==
    /\ Spec
    /\ \A r \in Slots : WF_vars(Proceed(r)) /\ SF_vars(Acquire(r))

\* C19: a request holds the lock only inside a critical section, so never
\* while it waits for the fetch and the name resolution, never while it
\* asks for the lock, and never after it has returned; and with a fair lock
\* every accepted request comes to its end, whatever the other requests do.
C19_Progress ==
    /\ [](\A r \in Slots :
            /\ lock = r <=> req[r].pc \in CriticalSections
            /\ req[r].pc = "fetch" => lock # r
            /\ req[r].pc \in LockPoints => lock # r
            /\ ~InFlight(r) => lock # r)
    /\ \A r \in Slots : InFlight(r) ~> ~InFlight(r)

\* Two requests that ran at the same time have both returned, one of them a
\* reconcile of two rows, and the lock is free.
C19_Witness ==
    /\ lock = 0
    /\ started = 2
    /\ \A r \in Slots : req[r].pc = "done" /\ ~req[r].solo
    /\ \E r \in Slots : ReconcileDone(r) /\ Len(req[r].result_rows) = 2
    /\ \E r \in Slots : req[r].kind = "post" /\ req[r].wrote


\* C20: in a sorted prior-week roster with attendance "yes", "no" or none,
\* every present row comes before every other row; so the running counter,
\* started at -1, is at least 0 at every present row that has been given its
\* label and TA, and the first present row is labelled Group 1.
C20_CounterNonNegative ==
    /\ \A i, j \in 1..Len(alloc.rows) :
          (i < j /\ alloc.rows[j].attendance = Some("yes"))
          => alloc.rows[i].attendance = Some("yes")
    /\ \A i \in 1..alloc.idx :
          alloc.rows[i].attendance = Some("yes")
          => /\ alloc.counters[i] >= 0
             /\ (\A k \in 1..(i - 1) : alloc.rows[k].attendance # Some("yes"))
                   => alloc.out[i].group_id = "Group 1"

\* A roster of seven present rows, two absent rows and a row without
\* attendance has been allocated to the end: the counter went from 0 at the
\* first present row to 1 at the seventh.
C20_Witness ==
    /\ Len(alloc.rows) = 10
    /\ alloc.idx = 10
    /\ alloc.rows[7].attendance = Some("yes")
    /\ alloc.rows[8].attendance = Some("no")
    /\ alloc.rows[10].attendance = None
    /\ alloc.counters[1] = 0
    /\ alloc.counters[7] = 1
    /\ alloc.out[1].group_id = "Group 1"

=============================================================================
